---- MODULE Spec2Model ----
(***************************************************************************)
(* The "withdraw funds" functions of src/main.rs and src/best.rs, and a    *)
(* caller that threads one balance through a sequence of calls to them.    *)
(*                                                                         *)
(* u64 is modelled as the unsigned integers 0..MaxU64 (arithmetic modulo   *)
(* MaxU64 + 1).  The `-` of u64 panics on overflow when the build has      *)
(* overflow checks (debug profile) and wraps when it has none (release     *)
(* profile); the build profile is chosen once, in Init.                    *)
(***************************************************************************)
EXTENDS Integers, Sequences, FiniteSets, TLC

\* Largest value of the modelled unsigned integer type (stands for u64::MAX).
MaxU64 == 7
\* Largest number of calls the caller makes.
MaxCalls == 3

U64 == 0..MaxU64
Modulus == MaxU64 + 1

VARIABLES
    overflow_checks,  \* TRUE: `-` panics on overflow; FALSE: it wraps
    initial,          \* the balance the caller started with
    held,             \* the balance the caller holds now
    withdrawn,        \* sum of the amounts of the successful withdrawals
    steps,            \* number of calls made
    aborted,          \* a call panicked
    last,             \* the last call: inputs given, frame at return, result
    prev              \* the call before it

vars == <<overflow_checks, initial, held, withdrawn, steps, aborted, last, prev>>

----------------------------------------------------------------------------
(* Result<T, String> and a panic of the callee *)

Ok(v) == [kind |-> "Ok", value |-> v]
Err(m) == [kind |-> "Err", msg |-> m]
Panic == [kind |-> "Panic"]

NotEnoughFunds == "not enough funds"

(* `x - y` on u64: the wrapped difference, and whether it overflowed *)
U64Sub_Add(x, y) == [overflow |-> x + y > MaxU64, value |-> (x + y) % Modulus]
U64Sub(x, y) == [overflow |-> y > x, value |-> (x - y + Modulus) % Modulus]

(* The value of the expression Ok(wrap(x - y)): a panic under overflow
   checks when the subtraction overflows *)
OkSub(d, v) == IF d.overflow /\ overflow_checks THEN Panic ELSE Ok(v)

----------------------------------------------------------------------------
(* main.rs: raw integers *)

withdraw_funds_GuardGe(balance, amount_to_withdraw) ==
    IF amount_to_withdraw >= balance
    THEN Err(NotEnoughFunds)
    ELSE LET d == U64Sub(balance, amount_to_withdraw) IN OkSub(d, d.value)

withdraw_funds_NoGuard(balance, amount_to_withdraw) ==
    LET d == U64Sub(balance, amount_to_withdraw) IN OkSub(d, d.value)

withdraw_funds(balance, amount_to_withdraw) ==
    IF amount_to_withdraw > balance
    THEN Err(NotEnoughFunds)
    ELSE LET d == U64Sub(balance, amount_to_withdraw) IN OkSub(d, d.value)

(* main.rs: type aliases Balance = u64, Amount = u64 (commented out in the
   source) *)
withdraw_funds_better(balance, amount_to_withdraw) ==
    IF amount_to_withdraw > balance
    THEN Err(NotEnoughFunds)
    ELSE LET d == U64Sub(balance, amount_to_withdraw) IN OkSub(d, d.value)

----------------------------------------------------------------------------
(* main.rs: newtypes with accessors *)

Balance(x) == [type |-> "Balance", f0 |-> x]
Amount(x) == [type |-> "Amount", f0 |-> x]

Balance_get_Zero(self) == 0
Balance_get(self) == self.f0

Amount_get(self) == self.f0

withdraw_funds_even_better_GuardGe(balance, amount_to_withdraw) ==
    IF Amount_get(amount_to_withdraw) >= Balance_get(balance)
    THEN Err(NotEnoughFunds)
    ELSE LET d == U64Sub(Balance_get(balance), Amount_get(amount_to_withdraw))
         IN OkSub(d, Balance(d.value))

withdraw_funds_even_better_GuardSwapped(balance, amount_to_withdraw) ==
    IF Balance_get(balance) > Amount_get(amount_to_withdraw)
    THEN Err(NotEnoughFunds)
    ELSE LET d == U64Sub(Balance_get(balance), Amount_get(amount_to_withdraw))
         IN OkSub(d, Balance(d.value))

withdraw_funds_even_better_NoGuard(balance, amount_to_withdraw) ==
    LET d == U64Sub(Balance_get(balance), Amount_get(amount_to_withdraw))
    IN OkSub(d, Balance(d.value))

withdraw_funds_even_better(balance, amount_to_withdraw) ==
    IF Amount_get(amount_to_withdraw) > Balance_get(balance)
    THEN Err(NotEnoughFunds)
    ELSE LET d == U64Sub(Balance_get(balance), Amount_get(amount_to_withdraw))
         IN OkSub(d, Balance(d.value))

----------------------------------------------------------------------------
(* best.rs: newtypes compared and subtracted directly.  The source holds no
   impl of `>` between Amount and Balance nor of `-`; both act on the wrapped
   integers. *)

best_Balance(x) == [type |-> "best::Balance", f0 |-> x]
best_Amount(x) == [type |-> "best::Amount", f0 |-> x]

best_gt(amount, balance) == amount.f0 > balance.f0

best_sub(balance, amount) ==
    LET d == U64Sub(balance.f0, amount.f0) IN OkSub(d, best_Balance(d.value))

withdraw_funds_best(balance, amount_to_withdraw) ==
    IF best_gt(amount_to_withdraw, balance)
    THEN Err(NotEnoughFunds)
    ELSE best_sub(balance, amount_to_withdraw)

----------------------------------------------------------------------------
(* The caller *)

NoCall ==
    [fn |-> "none", given_balance |-> 0, given_amount |-> 0,
     balance |-> 0, amount_to_withdraw |-> 0, ret |-> [kind |-> "None"]]

Init ==
    /\ overflow_checks \in BOOLEAN
    /\ initial \in U64
    /\ held = initial
    /\ withdrawn = 0
    /\ steps = 0
    /\ aborted = FALSE
    /\ last = NoCall
    /\ prev = NoCall

(* One call of fn with the held balance and amount a.  pbalance and pamount
   are the callee's parameters as they stand at return, ret what it returned,
   raw the integer inside an Ok result.  The caller replaces its balance by an
   Ok result, keeps it on Err, and dies with the callee on a panic. *)
Thread(fn, a, pbalance, pamount, ret, raw) ==
    /\ ~aborted
    /\ steps < MaxCalls
    /\ steps' = steps + 1
    /\ prev' = last
    /\ last' = [fn |-> fn, given_balance |-> held, given_amount |-> a,
                balance |-> pbalance, amount_to_withdraw |-> pamount,
                ret |-> ret]
    /\ held' = IF ret.kind = "Ok" THEN raw ELSE held
    /\ withdrawn' = IF ret.kind = "Ok" THEN withdrawn + a ELSE withdrawn
    /\ aborted' = (ret.kind = "Panic")
    /\ UNCHANGED <<overflow_checks, initial>>

Call_withdraw_funds ==
    \E a \in U64 :
        LET ret == withdraw_funds(held, a)
        IN Thread("withdraw_funds", a, held, a, ret,
                  IF ret.kind = "Ok" THEN ret.value ELSE held)

Call_withdraw_funds_better ==
    \E a \in U64 :
        LET ret == withdraw_funds_better(held, a)
        IN Thread("withdraw_funds_better", a, held, a, ret,
                  IF ret.kind = "Ok" THEN ret.value ELSE held)

(* A withdrawal that updates the balance it was given and returns it *)
Call_withdraw_funds_even_better_InPlace ==
    \E a \in U64 :
        LET ret == withdraw_funds_even_better(Balance(held), Amount(a))
        IN Thread("withdraw_funds_even_better", a,
                  IF ret.kind = "Ok" THEN ret.value ELSE Balance(held),
                  Amount(a), ret,
                  IF ret.kind = "Ok" THEN Balance_get(ret.value) ELSE held)

Call_withdraw_funds_even_better ==
    \E a \in U64 :
        LET balance == Balance(held)
            amount_to_withdraw == Amount(a)
            ret == withdraw_funds_even_better(balance, amount_to_withdraw)
        IN Thread("withdraw_funds_even_better", a, balance,
                  amount_to_withdraw, ret,
                  IF ret.kind = "Ok" THEN Balance_get(ret.value) ELSE held)

Call_withdraw_funds_best ==
    \E a \in U64 :
        LET balance == best_Balance(held)
            amount_to_withdraw == best_Amount(a)
            ret == withdraw_funds_best(balance, amount_to_withdraw)
        IN Thread("withdraw_funds_best", a, balance, amount_to_withdraw, ret,
                  IF ret.kind = "Ok" THEN ret.value.f0 ELSE held)

Next ==
    \/ Call_withdraw_funds
    \/ Call_withdraw_funds_better
    \/ Call_withdraw_funds_even_better
    \/ Call_withdraw_funds_best

Spec == Init /\ [][Next]_vars
----------------------------------------------------------------------------
(* Reading the history *)

Called == last.fn # "none"
Raw == {"withdraw_funds", "withdraw_funds_better"}
Named == {"withdraw_funds", "withdraw_funds_even_better"}

\* The result of a call with the integer taken out of an Ok value.
Unwrapped(fn, ret) ==
    IF ret.kind = "Ok"
    THEN Ok(IF fn \in Raw THEN ret.value ELSE ret.value.f0)
    ELSE ret

\* What each encoding returns for the integers b and a, unwrapped.
Encoded(fn, b, a) ==
    CASE fn = "withdraw_funds" -> Unwrapped(fn, withdraw_funds(b, a))
      [] fn = "withdraw_funds_better" ->
            Unwrapped(fn, withdraw_funds_better(b, a))
      [] fn = "withdraw_funds_even_better" ->
            Unwrapped(fn, withdraw_funds_even_better(Balance(b), Amount(a)))
      [] fn = "withdraw_funds_best" ->
            Unwrapped(fn, withdraw_funds_best(best_Balance(b), best_Amount(a)))

Encodings ==
    {"withdraw_funds", "withdraw_funds_better", "withdraw_funds_even_better",
     "withdraw_funds_best"}

----------------------------------------------------------------------------
\* C1: a call of withdraw_funds or withdraw_funds_even_better with
\* amount <= balance returns Ok(balance - amount), the newtype version
\* wrapped in Balance; amount = balance gives Ok(0).
C1_SufficientFundsSucceed ==
    (last.fn \in Named /\ last.given_amount <= last.given_balance) =>
        /\ last.fn = "withdraw_funds" =>
               last.ret = Ok(last.given_balance - last.given_amount)
        /\ last.fn = "withdraw_funds_even_better" =>
               last.ret = Ok(Balance(last.given_balance - last.given_amount))
        /\ last.given_amount = last.given_balance =>
               Unwrapped(last.fn, last.ret) = Ok(0)

C1_Witness ==
    /\ last.fn = "withdraw_funds_even_better"
    /\ last.given_balance = MaxU64
    /\ last.given_amount = MaxU64
    /\ last.ret = Ok(Balance(0))
    /\ prev.fn = "withdraw_funds"
    /\ prev.given_amount = 0
    /\ prev.ret = Ok(MaxU64)

\* C2: a call of withdraw_funds or withdraw_funds_even_better returns
\* Err("not enough funds") exactly when amount > balance, and then no balance.
C2_InsufficientFundsIff ==
    last.fn \in Named =>
        /\ (last.ret = Err(NotEnoughFunds)) <=>
               (last.given_amount > last.given_balance)
        /\ last.given_amount > last.given_balance => last.ret.kind # "Ok"

C2_Witness ==
    /\ last.fn \in Named
    /\ last.given_amount = last.given_balance + 1
    /\ last.ret = Err(NotEnoughFunds)
    /\ held = last.given_balance

\* C3: whatever encoding made the last call, every encoding returns for the
\* same balance and amount the same unwrapped result: all Ok with the same
\* integer or all the same error.
C3_EncodingsAgree ==
    Called =>
        \A fn \in Encodings :
            Encoded(fn, last.given_balance, last.given_amount)
                = Unwrapped(last.fn, last.ret)

C3_Witness ==
    /\ last.fn = "withdraw_funds_best"
    /\ last.ret.kind = "Ok"
    /\ last.given_amount > 0
    /\ prev.fn = "withdraw_funds_even_better"
    /\ prev.ret.kind = "Err"

\* C4: an Ok result of withdraw_funds or withdraw_funds_even_better is never
\* a wrapped difference: 0 <= r <= balance and r + amount = balance in the
\* integers.
C4_NoWrappedResult ==
    (last.fn \in Named /\ last.ret.kind = "Ok") =>
        LET r == Unwrapped(last.fn, last.ret).value
        IN /\ 0 <= r
           /\ r <= last.given_balance
           /\ r + last.given_amount = last.given_balance

C4_Witness ==
    /\ last.fn \in Named
    /\ last.ret.kind = "Ok"
    /\ last.given_amount = MaxU64
    /\ Unwrapped(last.fn, last.ret).value = 0
    /\ ~overflow_checks

\* C5: a call of withdraw_funds_even_better ends in exactly one of Ok(new
\* balance) and Err("not enough funds"); it never panics, zero amounts and
\* balances included.
C5_TwoOutcomes ==
    last.fn = "withdraw_funds_even_better" =>
        /\ ~aborted
        /\ \/ /\ last.ret.kind = "Ok"
              /\ \E v \in U64 : last.ret = Ok(Balance(v))
           \/ last.ret = Err(NotEnoughFunds)

C5_Witness ==
    /\ last.fn = "withdraw_funds_even_better"
    /\ last.given_balance = 0
    /\ last.given_amount = 0
    /\ last.ret = Ok(Balance(0))
    /\ overflow_checks

\* C6: the arguments the caller wrapped for withdraw_funds_even_better unwrap
\* to the integers it wrapped: Balance(x).get() = x and Amount(x).get() = x.
C6_WrapUnwrap ==
    last.fn = "withdraw_funds_even_better" =>
        /\ Balance_get(last.balance) = last.given_balance
        /\ Amount_get(last.amount_to_withdraw) = last.given_amount
        /\ Balance_get(Balance(held)) = held

C6_Witness ==
    /\ last.fn = "withdraw_funds_even_better"
    /\ Balance_get(last.balance) = MaxU64
    /\ Amount_get(last.amount_to_withdraw) = 1

\* C8: at the return of withdraw_funds_even_better its balance and amount
\* parameters still hold the values the caller gave, on success and on
\* failure, and an Ok result is a Balance of its own holding balance - amount.
C8_InputsUnchanged ==
    last.fn = "withdraw_funds_even_better" =>
        /\ last.balance = Balance(last.given_balance)
        /\ last.amount_to_withdraw = Amount(last.given_amount)
        /\ last.ret.kind = "Ok" =>
               last.ret.value = Balance(last.given_balance - last.given_amount)

C8_Witness ==
    /\ last.fn = "withdraw_funds_even_better"
    /\ last.ret.kind = "Ok"
    /\ last.given_amount > 0
    /\ last.ret.value # last.balance
    /\ prev.fn = "withdraw_funds_even_better"
    /\ prev.ret.kind = "Err"
    /\ prev.balance = Balance(prev.given_balance)

\* C9: after every step the held balance is the initial balance minus the
\* sum of the amounts withdrawn with success, it is at most the initial
\* balance, and no step increases it.
C9_ThreadedBalance ==
    /\ [](held = initial - withdrawn /\ held <= initial /\ held \in U64)
    /\ [][held' <= held]_vars

C9_Witness ==
    /\ steps = MaxCalls
    /\ prev.ret.kind = "Ok"
    /\ prev.given_amount > 0
    /\ last.ret.kind = "Ok"
    /\ last.given_amount > 0
    /\ withdrawn = prev.given_amount + last.given_amount
    /\ held = initial - withdrawn

\* The balance left by withdrawing a1 and then a2 from the result, with fn.
TwoStep(fn, b, a1, a2) ==
    LET r1 == Encoded(fn, b, a1)
    IN IF r1.kind = "Ok" THEN Encoded(fn, r1.value, a2) ELSE r1

\* C10: for two consecutive calls a1, a2 of the caller with a1 + a2 <=
\* MaxU64, both succeed exactly when one withdrawal of a1 + a2 from the
\* balance before them succeeds, both ways leave the same balance, and so
\* does the other order when it succeeds too.
C10_Additive ==
    (/\ prev.fn \in Named
     /\ last.fn \in Named
     /\ prev.given_amount + last.given_amount <= MaxU64) =>
        LET b == prev.given_balance
            a1 == prev.given_amount
            a2 == last.given_amount
            both == prev.ret.kind = "Ok" /\ last.ret.kind = "Ok"
            once == Encoded(last.fn, b, a1 + a2)
            other == TwoStep(prev.fn, b, a2, a1)
        IN /\ both <=> once.kind = "Ok"
           /\ both => Unwrapped(last.fn, last.ret) = once
           /\ (both /\ other.kind = "Ok") =>
                  other = Unwrapped(last.fn, last.ret)

C10_Witness ==
    /\ prev.fn = "withdraw_funds"
    /\ last.fn = "withdraw_funds_even_better"
    /\ prev.given_amount = 2
    /\ last.given_amount = 3
    /\ prev.given_balance = 5
    /\ last.ret = Ok(Balance(0))

====
